---------------------------- MODULE Spec2Model ----------------------------
(***************************************************************************)
(* A model of app.py: the two Flask endpoints, fetch_data_in_parallel      *)
(* (a ThreadPoolExecutor and as_completed over its futures) and the two    *)
(* fetchers with their effects on the registry, the provider session, the  *)
(* output directories and files and the error log.                        *)
(***************************************************************************)
EXTENDS Naturals, Sequences, FiniteSets, Bags, TLC

\* ------------------------------------------------------------- bounds
\* The number of HTTP requests the model lets arrive.
MaxReq == 2
\* The number of tickers the requests of one behaviour carry in total.
MaxTasks == 2
\* The largest number of price bars a provider frame holds.
MaxBars == 1
\* How many tickers beyond the pool size the large batch carries.
PoolExtra == 1

\* ------------------------------------------------- program constants
\* ThreadPoolExecutor(max_workers=10)
max_workers == 10

live_data_dir == "nifty50_live_data"
historical_data_dir == "nifty50_historical_data"

\* The Symbol column of the list read at startup.
nifty_50_companies == {"INFY"}
\* tickers: every symbol with the exchange suffix appended.
tickers == {x \o ".NS" : x \in nifty_50_companies}
\* nifty50_tickers.tickers: the dict the fetchers subscript.
nifty50_tickers == tickers

\* The ticker strings a client may send: the registered ones and one the
\* registry does not hold.
Requested == tickers \cup {"ZZZ.NS"}

Req == 1..MaxReq
Routes == {"live", "historical"}

\* A request body either lacks the "tickers" key or carries a list.
NoKey == <<"no tickers key">>
RECURSIVE ListsUpTo(_)
ListsUpTo(n) ==
  IF n = 0 THEN {<<>>}
  ELSE LET S == ListsUpTo(n - 1)
       IN  S \cup {Append(l, t) : l \in {m \in S : Len(m) = n - 1}, t \in Requested}

\* request.json.get('tickers', [])
GetTickers(body) == IF body = NoKey THEN <<>> ELSE body

\* ------------------------------------------------------------ values
NoFrame == [kind |-> "none"]
Frames == {[kind |-> "frame", rows |-> n] : n \in 0..MaxBars}
Quotes == {[kind |-> "quote", keys |-> 7]}
NoQuote == [kind |-> "none"]

Absent == [kind |-> "absent"]
Empty == [kind |-> "empty"]
\* DataFrame.to_csv: a header line and one line per row.
to_csv(frame) == [kind |-> "csv", rows |-> frame.rows]
\* json.dump of the seven quote fields.
json_dump(q) == [kind |-> "json", keys |-> q.keys]
Size(c) ==
  CASE c.kind = "csv" -> c.rows + 1
    [] c.kind = "json" -> 1
    [] c.kind = "garbled" -> c.size
    [] OTHER -> 0
\* Writing new from offset 0 through a handle opened with mode 'w' onto
\* what the file holds now: bytes another handle wrote beyond the end of
\* new stay in the file.
Overlay(old, new) ==
  IF Size(new) >= Size(old) THEN new
  ELSE [kind |-> "garbled", size |-> Size(old)]

live_data_output_dir(t) == <<live_data_dir, t>>
data_output_dir(t) == <<historical_data_dir, t>>
live_csv_path(t) == <<live_data_dir, t, <<t, "_live_data.csv">> >>
live_info_file_path(t) == <<live_data_dir, t, <<t, "_live_info.json">> >>
historical_csv_path(t) == <<historical_data_dir, t, <<t, "_historical_data.csv">> >>
Paths ==
  UNION {{live_csv_path(t), live_info_file_path(t), historical_csv_path(t)} :
         t \in Requested}

\* str(e) of the exceptions the steps raise.
KeyErrorMsg(t) == <<"'", t, "'">>
ProviderErrorMsg == <<"provider error">>
OSErrorMsg == <<"os error">>

SuccessResult(rt, t) ==
  [status |-> "success",
   message |-> IF rt = "live"
               THEN <<"Live market data for ", t, " fetched and saved.">>
               ELSE <<"Historical data for ", t, " fetched and saved.">>]
ErrorResult(msg) == [status |-> "error", message |-> msg]
LogLine(rt, t, msg) ==
  IF rt = "live"
  THEN <<"Failed to fetch live data for ", t, ": ", msg>>
  ELSE <<"Failed to fetch historical data for ", t, ": ", msg>>

\* ------------------------------------------------------------- state
\* A work item a worker thread is running: fetch_function(ticker) at pc,
\* holding the frame and the live_info it has got from the provider.
TaskPcs == {"fetch", "makedirs", "csv_write", "json_open", "json_dump", "return"}
TaskRec(t, pc, f, q) == [ticker |-> t, pc |-> pc, data |-> f, info |-> q]
TaskRecs ==
  [ticker : Requested, pc : TaskPcs, data : Frames \cup {NoFrame},
   info : Quotes \cup {NoQuote}]

VARIABLES
  route,       \* route[r]: the endpoint request r came to, "none" before
  batch,       \* batch[r]: the tickers argument of fetch_data_in_parallel
  dpc,         \* dpc[r]: where the endpoint's thread is
  nsub,        \* nsub[r]: how many tickers have been submitted
  queue,       \* queue[r]: executor._work_queue, the tickers of its items
  running,     \* running[r]: the work items the worker threads are running
  nthreads,    \* nthreads[r]: len(executor._threads)
  idle_sem,    \* idle_sem[r]: executor._idle_semaphore
  early,       \* early[r]: the results of the futures that have finished
               \* before as_completed begins
  waiter,      \* waiter[r]: waiter.finished_futures, by their results
  npending,    \* npending[r]: len(pending) in as_completed
  results,     \* results[r]: the results list
  done_order,  \* done_order[r]: the results in the order the tasks ended
  nearly,      \* nearly[r]: how many tasks had ended when as_completed began
  files,       \* files[p]: what the file at p holds
  dirs,        \* the per-ticker output directories that exist
  log,         \* nifty50_data_fetch.log
  called       \* the tickers a call to the provider was made for

dvars == <<route, batch, dpc, nsub, early, npending, results, nearly>>
pvars == <<queue, nthreads>>
tvars == <<running, waiter, done_order, idle_sem>>
evars == <<files, dirs, log, called>>
vars == <<dvars, pvars, tvars, evars>>

Init ==
  /\ route = [r \in Req |-> "none"]
  /\ batch = [r \in Req |-> <<>>]
  /\ dpc = [r \in Req |-> "idle"]
  /\ nsub = [r \in Req |-> 0]
  /\ queue = [r \in Req |-> <<>>]
  /\ running = [r \in Req |-> EmptyBag]
  /\ nthreads = [r \in Req |-> 0]
  /\ idle_sem = [r \in Req |-> 0]
  /\ early = [r \in Req |-> EmptyBag]
  /\ waiter = [r \in Req |-> <<>>]
  /\ npending = [r \in Req |-> 0]
  /\ results = [r \in Req |-> <<>>]
  /\ done_order = [r \in Req |-> <<>>]
  /\ nearly = [r \in Req |-> 0]
  /\ files = [p \in Paths |-> Absent]
  /\ dirs = {}
  /\ log = <<>>
  /\ called = {}

\* The number of fetch operations of request r that are executing.
Executing(r) == BagCardinality(running[r])
\* The number of tasks of request r that have ended.
Ended(r) == Len(done_order[r])
TotalTasks == LET RECURSIVE Sum(_)
                  Sum(n) == IF n = 0 THEN 0 ELSE Len(batch[n]) + Sum(n - 1)
              IN  Sum(MaxReq)

\* ------------------------------------------------------- the endpoints
\* fetch_live_market_data_endpoint / fetch_historical_data_endpoint up to
\* the entry of fetch_data_in_parallel: results = [] and the executor.
Post(r, rt, body) ==
  /\ dpc[r] = "idle"
  /\ \A q \in Req : q < r => dpc[q] # "idle"
  /\ route' = [route EXCEPT ![r] = rt]
  /\ batch' = [batch EXCEPT ![r] = GetTickers(body)]
  /\ dpc' = [dpc EXCEPT ![r] = "submit"]
  /\ UNCHANGED <<nsub, early, npending, results, nearly, pvars, tvars,
                 evars>>

\* Submit with the bound on the number of threads left out: a worker thread
\* is started for every work item that finds no idle permit.
SubmitUnbounded(r) ==
  /\ dpc[r] = "submit"
  /\ nsub[r] < Len(batch[r])
  /\ nsub' = [nsub EXCEPT ![r] = @ + 1]
  /\ queue' = [queue EXCEPT ![r] = Append(@, batch[r][nsub[r] + 1])]
  /\ IF idle_sem[r] > 0
     THEN idle_sem' = [idle_sem EXCEPT ![r] = @ - 1] /\ UNCHANGED nthreads
     ELSE nthreads' = [nthreads EXCEPT ![r] = @ + 1] /\ UNCHANGED idle_sem
  /\ UNCHANGED <<route, batch, dpc, early, npending, results, nearly,
                 running, waiter, done_order, evars>>

\* executor.submit(fetch_function, ticker) for the next ticker of the list:
\* the work item is queued, and _adjust_thread_count takes an idle permit
\* or else starts a worker thread while fewer than max_workers exist.
Submit(r) ==
  /\ dpc[r] = "submit"
  /\ nsub[r] < Len(batch[r])
  /\ nsub' = [nsub EXCEPT ![r] = @ + 1]
  /\ queue' = [queue EXCEPT ![r] = Append(@, batch[r][nsub[r] + 1])]
  /\ IF idle_sem[r] > 0
     THEN idle_sem' = [idle_sem EXCEPT ![r] = @ - 1] /\ UNCHANGED nthreads
     ELSE /\ nthreads' = [nthreads EXCEPT ![r] =
                            IF @ < max_workers THEN @ + 1 ELSE @]
          /\ UNCHANGED idle_sem
  /\ UNCHANGED <<route, batch, dpc, early, npending, results, nearly,
                 running, waiter, done_order, evars>>

\* result = future.result() of a yielded future; a future of this program
\* never holds an exception, since the fetchers catch theirs.
Collected(res) == res

\* The orders in which a set of finished futures may be iterated.
RECURSIVE Orders(_)
Orders(B) ==
  IF B = EmptyBag THEN {<<>>}
  ELSE UNION {{<<Collected(x)>> \o s : s \in Orders(B (-) SetToBag({x}))} :
              x \in BagToSet(B)}

\* The loop enters as_completed(futures): the futures already finished are
\* set aside as a set, the others are pending and the waiter is installed
\* on every future; the finished ones are then yielded, in the order of the
\* set, and the loop body appends the result of each to results.
BeginCollect(r) ==
  /\ dpc[r] = "submit"
  /\ nsub[r] = Len(batch[r])
  /\ dpc' = [dpc EXCEPT ![r] = "collect"]
  /\ nearly' = [nearly EXCEPT ![r] = Ended(r)]
  /\ npending' = [npending EXCEPT ![r] = Len(batch[r]) - Ended(r)]
  /\ \E s \in Orders(early[r]) : results' = [results EXCEPT ![r] = @ \o s]
  /\ early' = [early EXCEPT ![r] = EmptyBag]
  /\ UNCHANGED <<route, batch, nsub, pvars, tvars, evars>>

\* TakeFinished with a loop body that appends only the first of the futures
\* taken from the waiter.
TakeFinishedDropsOne(r) ==
  /\ dpc[r] = "collect"
  /\ npending[r] > 0
  /\ waiter[r] # <<>>
  /\ results' = [results EXCEPT ![r] = Append(@, Collected(waiter[r][1]))]
  /\ npending' = [npending EXCEPT ![r] = @ - Len(waiter[r])]
  /\ waiter' = [waiter EXCEPT ![r] = <<>>]
  /\ UNCHANGED <<route, batch, dpc, nsub, early, nearly, pvars, running,
                 done_order, idle_sem, evars>>

\* TakeFinished without the reversal of the list taken from the waiter: the
\* futures are yielded last finished first.
TakeFinishedReversed(r) ==
  /\ dpc[r] = "collect"
  /\ npending[r] > 0
  /\ waiter[r] # <<>>
  /\ results' = [results EXCEPT ![r] =
                   @ \o [k \in 1..Len(waiter[r]) |->
                           Collected(waiter[r][Len(waiter[r]) + 1 - k])]]
  /\ npending' = [npending EXCEPT ![r] = @ - Len(waiter[r])]
  /\ waiter' = [waiter EXCEPT ![r] = <<>>]
  /\ UNCHANGED <<route, batch, dpc, nsub, early, nearly, pvars, running,
                 done_order, idle_sem, evars>>

\* waiter.event.wait() returns: the futures that finished since are taken
\* from the waiter and yielded in the order they finished, and the loop
\* body appends the result of each to results.
TakeFinished(r) ==
  /\ dpc[r] = "collect"
  /\ npending[r] > 0
  /\ waiter[r] # <<>>
  /\ results' = [results EXCEPT ![r] =
                   @ \o [k \in 1..Len(waiter[r]) |-> Collected(waiter[r][k])]]
  /\ npending' = [npending EXCEPT ![r] = @ - Len(waiter[r])]
  /\ waiter' = [waiter EXCEPT ![r] = <<>>]
  /\ UNCHANGED <<route, batch, dpc, nsub, early, nearly, pvars, running,
                 done_order, idle_sem, evars>>

\* The loop over as_completed has ended: no future is pending.
LoopEnded(r) == npending[r] = 0

\* Leaving the with block, executor.shutdown(wait=True), joins the worker
\* threads: it returns once no work item is queued or running.
Joined(r) == queue[r] = <<>> /\ running[r] = EmptyBag

\* Respond without the wait: the results collected so far are returned
\* while futures are pending and the worker threads are not joined.
RespondEarly(r) ==
  /\ dpc[r] = "collect"
  /\ dpc' = [dpc EXCEPT ![r] = "responded"]
  /\ UNCHANGED <<route, batch, nsub, early, npending, results, nearly,
                 pvars, tvars, evars>>

\* The end of fetch_data_in_parallel and of the endpoint: return results,
\* jsonify(result).
Respond(r) ==
  /\ dpc[r] = "collect"
  /\ LoopEnded(r)
  /\ Joined(r)
  /\ dpc' = [dpc EXCEPT ![r] = "responded"]
  /\ UNCHANGED <<route, batch, nsub, early, npending, results, nearly,
                 pvars, tvars, evars>>

\* ------------------------------------------------------------ the pool
\* FreeWorker for worker threads that end after one work item.
FreeWorkerOnce(r) == Ended(r) + Executing(r) < nthreads[r]

\* Whether a worker thread of the pool is free to take a work item.
FreeWorker(r) == Executing(r) < nthreads[r]

\* A worker thread takes the oldest work item of the queue and calls
\* fetch_function(ticker).
StartTask(r) ==
  /\ queue[r] # <<>>
  /\ FreeWorker(r)
  /\ queue' = [queue EXCEPT ![r] = Tail(@)]
  /\ running' = [running EXCEPT ![r] =
                   @ (+) SetToBag({TaskRec(Head(queue[r]), "fetch", NoFrame, NoQuote)})]
  /\ UNCHANGED <<dvars, nthreads, waiter, done_order, idle_sem, evars>>

\* The work item t goes on as t2.
Step(r, t, t2) ==
  /\ running' = [running EXCEPT ![r] = (@ (-) SetToBag({t})) (+) SetToBag({t2})]
  /\ UNCHANGED <<dvars, pvars, waiter, done_order, idle_sem>>

\* The fetcher returns res: the work item sets the future's result, the
\* waiter (once installed) records the future, and the worker thread
\* releases an idle permit. Future.set_result is one step: it marks the
\* future finished and notifies the waiter under the future's lock, which
\* as_completed holds while it sets the finished futures aside. A task has
\* ended when this step is taken, and done_order is the order of these
\* steps.
SetResult(r, t, res) ==
  /\ running' = [running EXCEPT ![r] = @ (-) SetToBag({t})]
  /\ done_order' = [done_order EXCEPT ![r] = Append(@, res)]
  /\ IF dpc[r] = "collect"
     THEN waiter' = [waiter EXCEPT ![r] = Append(@, res)] /\ UNCHANGED early
     ELSE early' = [early EXCEPT ![r] = @ (+) SetToBag({res})] /\ UNCHANGED waiter
  /\ idle_sem' = [idle_sem EXCEPT ![r] = @ + 1]
  /\ UNCHANGED <<route, batch, dpc, nsub, npending, results, nearly,
                 pvars>>

\* ---------------------------------------------------------- the fetchers
\* Except without the logging.error call.
ExceptNoLog(r, t, msg) ==
  /\ log' = log
  /\ SetResult(r, t, ErrorResult(msg))

\* except Exception as e: logging.error(...); return the error result.
Except(r, t, msg) ==
  /\ log' = Append(log, LogLine(route[r], t.ticker, msg))
  /\ SetResult(r, t, ErrorResult(msg))

\* Work item t of request r is at pc.
At(r, t, pc) == t.pc = pc /\ BagIn(t, running[r])

\* Fetch without the registry lookup, as if the fetcher built the provider
\* object from the ticker string itself: every ticker goes to the provider.
FetchNoLookup(r, t) ==
  /\ At(r, t, "fetch")
  /\ called' = called \cup {t.ticker}
  /\ \/ \E f \in Frames, q \in Quotes :
          /\ Step(r, t, TaskRec(t.ticker, "makedirs", f,
                                IF route[r] = "live" THEN q ELSE NoQuote))
          /\ UNCHANGED <<files, dirs, log>>
     \/ /\ Except(r, t, ProviderErrorMsg)
        /\ UNCHANGED <<files, dirs>>

\* company = nifty50_tickers.tickers[ticker], then the calls to the provider
\* through the session: company.history(...) and, in the live fetcher, the
\* seven company.info.get(...). The lookup raises KeyError for a ticker the
\* registry does not hold; a provider call returns or raises.
Fetch(r, t) ==
  /\ At(r, t, "fetch")
  /\ IF t.ticker \notin nifty50_tickers
     THEN /\ Except(r, t, KeyErrorMsg(t.ticker))
          /\ UNCHANGED <<files, dirs, called>>
     ELSE /\ called' = called \cup {t.ticker}
          /\ \/ \E f \in Frames, q \in Quotes :
                  /\ Step(r, t, TaskRec(t.ticker, "makedirs", f,
                                        IF route[r] = "live" THEN q ELSE NoQuote))
                  /\ UNCHANGED <<files, dirs, log>>
             \/ /\ Except(r, t, ProviderErrorMsg)
                /\ UNCHANGED <<files, dirs>>

OutputDir(r, t) ==
  IF route[r] = "live" THEN live_data_output_dir(t.ticker)
  ELSE data_output_dir(t.ticker)
CsvPath(r, t) ==
  IF route[r] = "live" THEN live_csv_path(t.ticker)
  ELSE historical_csv_path(t.ticker)

\* os.makedirs(<output dir>, exist_ok=True), then to_csv(path) opens the
\* file for writing, which creates or truncates it. Either may raise.
Makedirs(r, t) ==
  /\ At(r, t, "makedirs")
  /\ \/ /\ dirs' = dirs \cup {OutputDir(r, t)}
        /\ files' = [files EXCEPT ![CsvPath(r, t)] = Empty]
        /\ Step(r, t, [t EXCEPT !.pc = "csv_write"])
        /\ UNCHANGED <<log, called>>
     \/ /\ Except(r, t, OSErrorMsg)
        /\ UNCHANGED <<files, dirs, called>>
     \/ /\ dirs' = dirs \cup {OutputDir(r, t)}
        /\ Except(r, t, OSErrorMsg)
        /\ UNCHANGED <<files, called>>

\* to_csv writes the frame and closes the file.
CsvWrite(r, t) ==
  /\ At(r, t, "csv_write")
  /\ \/ /\ files' = [files EXCEPT ![CsvPath(r, t)] = Overlay(@, to_csv(t.data))]
        /\ Step(r, t, [t EXCEPT !.pc = IF route[r] = "live" THEN "json_open"
                                       ELSE "return"])
        /\ UNCHANGED <<dirs, log, called>>
     \/ /\ Except(r, t, OSErrorMsg)
        /\ UNCHANGED <<files, dirs, called>>

\* with open(live_info_file_path, 'w') as f
JsonOpen(r, t) ==
  /\ At(r, t, "json_open")
  /\ \/ /\ files' = [files EXCEPT ![live_info_file_path(t.ticker)] = Empty]
        /\ Step(r, t, [t EXCEPT !.pc = "json_dump"])
        /\ UNCHANGED <<dirs, log, called>>
     \/ /\ Except(r, t, OSErrorMsg)
        /\ UNCHANGED <<files, dirs, called>>

\* json.dump(live_data["live_info"], f) and the end of the with block.
JsonDump(r, t) ==
  /\ At(r, t, "json_dump")
  /\ \/ /\ files' = [files EXCEPT ![live_info_file_path(t.ticker)] =
                       Overlay(@, json_dump(t.info))]
        /\ Step(r, t, [t EXCEPT !.pc = "return"])
        /\ UNCHANGED <<dirs, log, called>>
     \/ /\ Except(r, t, OSErrorMsg)
        /\ UNCHANGED <<files, dirs, called>>

\* return {"status": "success", ...}
ReturnSuccess(r, t) ==
  /\ At(r, t, "return")
  /\ SetResult(r, t, SuccessResult(route[r], t.ticker))
  /\ UNCHANGED evars

\* fetch_live_market_data(ticker), one step at a time.
fetch_live_market_data(r, t) ==
  \/ route[r] = "live" /\ Fetch(r, t)
  \/ route[r] = "live" /\ Makedirs(r, t)
  \/ route[r] = "live" /\ CsvWrite(r, t)
  \/ route[r] = "live" /\ JsonOpen(r, t)
  \/ route[r] = "live" /\ JsonDump(r, t)
  \/ route[r] = "live" /\ ReturnSuccess(r, t)

\* fetch_historical_data(ticker), one step at a time.
fetch_historical_data(r, t) ==
  \/ route[r] = "historical" /\ Fetch(r, t)
  \/ route[r] = "historical" /\ Makedirs(r, t)
  \/ route[r] = "historical" /\ CsvWrite(r, t)
  \/ route[r] = "historical" /\ ReturnSuccess(r, t)

\* fetch_data_in_parallel(tickers, fetch_function): the endpoint's thread.
fetch_data_in_parallel(r) ==
  \/ Submit(r)
  \/ BeginCollect(r)
  \/ TakeFinished(r)
  \/ Respond(r)

\* ------------------------------------------------------ specifications
\* The bodies the requests of the model carry.
Bodies == {NoKey} \cup ListsUpTo(MaxTasks)

\* A request arrives at one of the two routes.
Arrive(r) ==
  \E rt \in Routes, body \in Bodies :
    /\ TotalTasks + Len(GetTickers(body)) <= MaxTasks
    /\ Post(r, rt, body)

\* The threaded server: requests arrive while others are being served.
Next ==
  \E r \in Req :
    \/ Arrive(r)
    \/ fetch_data_in_parallel(r)
    \/ StartTask(r)
    \/ \E t \in TaskRecs : fetch_live_market_data(r, t) \/ fetch_historical_data(r, t)

Spec == Init /\ [][Next]_vars

\* One request: a single call of an endpoint, from its arrival to its
\* response.
NextBatch ==
  \/ Arrive(1)
  \/ fetch_data_in_parallel(1)
  \/ StartTask(1)
  \/ \E t \in TaskRecs : fetch_live_market_data(1, t) \/ fetch_historical_data(1, t)

SpecBatch == Init /\ [][NextBatch]_vars

\* One request to the historical route whose batch is larger than the pool:
\* tickers the registry does not hold, alone or with a registered one last.
PoolLen == max_workers + PoolExtra
Unknown == CHOOSE t \in Requested : t \notin nifty50_tickers
Known == CHOOSE t \in Requested : t \in nifty50_tickers
PoolBodies ==
  {[i \in 1..PoolLen |-> IF i = k THEN Known ELSE Unknown] : k \in {0, PoolLen}}

ArrivePool == \E body \in PoolBodies : Post(1, "historical", body)

\* The steps of the threads that serve the request.
Progress ==
  \/ fetch_data_in_parallel(1)
  \/ StartTask(1)
  \/ \E t \in TaskRecs : fetch_historical_data(1, t)

NextPool == ArrivePool \/ Progress

SpecPool == Init /\ [][NextPool]_vars

\* The threads of the pool and the endpoint's thread are scheduled, and a
\* provider call returns or raises: a step of the request that stays
\* possible is eventually taken.
SpecPoolFair == SpecPool /\ WF_vars(Progress)

\* ---------------------------------------------------------------- claims
\* The bag of the elements of a sequence, its last element, what follows
\* its first n elements, and these.
BagOf(s) == [x \in {s[k] : k \in DOMAIN s} |-> Cardinality({k \in DOMAIN s : s[k] = x})]
Last(s) == s[Len(s)]
From(s, n) == SubSeq(s, n + 1, Len(s))
Upto(s, n) == SubSeq(s, 1, n)

\* C1: when the endpoint responds, the result list has exactly one entry per
\* ticker of the list it was given: as many results as tickers, and each
\* task's result in it exactly once.
C1_OneResultPerTicker ==
  \A r \in Req :
    dpc[r] = "responded" =>
      /\ Len(results[r]) = Len(batch[r])
      /\ Len(done_order[r]) = Len(batch[r])
      /\ BagOf(results[r]) = BagOf(done_order[r])

\* A response to a list that repeats a ticker, one of whose tasks failed.
C1_Witness ==
  \E r \in Req :
    /\ dpc[r] = "responded"
    /\ Len(batch[r]) = 2
    /\ batch[r][1] = batch[r][2]
    /\ \E j, k \in 1..2 : results[r][j].status = "success" /\ results[r][k].status = "error"

\* What a step that ends a work item of request r does.
C2_FetcherStep(r) ==
  /\ BagCardinality(running'[r]) < BagCardinality(running[r]) =>
       Len(done_order'[r]) = Len(done_order[r]) + 1
  /\ done_order'[r] # done_order[r] =>
       \E t \in BagToSet(running[r]) :
         /\ running'[r] = running[r] (-) SetToBag({t})
         /\ done_order'[r] = Append(done_order[r], Last(done_order'[r]))
         /\ LET res == Last(done_order'[r])
            IN  \/ /\ res = ErrorResult(res.message)
                   /\ log' = Append(log, LogLine(route[r], t.ticker, res.message))
                \/ /\ res = SuccessResult(route[r], t.ticker)
                   /\ t.pc = "return"
                   /\ log' = log

\* C2: a fetcher ends only by returning a result, never by an exception that
\* leaves it. When it ends with an exception caught, the log gains exactly
\* one line, for that ticker and with the exception's message, and the
\* result is the error result with that message; otherwise the log is
\* unchanged and the result is the success result that names the ticker.
C2_FetchersNeverRaise == [][\A r \in Req : C2_FetcherStep(r)]_vars

\* A request one of whose tasks failed at a file operation and another
\* succeeded.
C2_Witness ==
  \E r \in Req :
    /\ Len(done_order[r]) = 2
    /\ \E j, k \in 1..2 :
         /\ done_order[r][j] = ErrorResult(OSErrorMsg)
         /\ done_order[r][k].status = "success"
    /\ Len(log) = 1

\* The number of work items that hold the file at p open for writing.
RECURSIVE SumOver(_, _)
SumOver(S, B) ==
  IF S = {} THEN 0
  ELSE LET x == CHOOSE y \in S : TRUE
       IN  CopiesIn(x, B) + SumOver(S \ {x}, B)
WritersIn(r, p) ==
  SumOver({t \in BagToSet(running[r]) :
             \/ t.pc = "csv_write" /\ CsvPath(r, t) = p
             \/ t.pc = "json_dump" /\ live_info_file_path(t.ticker) = p},
          running[r])
RECURSIVE Writers(_, _)
Writers(n, p) == IF n = 0 THEN 0 ELSE WritersIn(n, p) + Writers(n - 1, p)

\* C3: no two fetch tasks that run at the same time are writing the same
\* output file.
C3_NoTwoWriters == \A p \in Paths : Writers(MaxReq, p) <= 1

\* C4: a request has responded only when every task of its batch has ended
\* with a result: none is queued, none is running, none was cancelled.
C4_RespondsAfterAllTasks ==
  \A r \in Req :
    dpc[r] = "responded" =>
      /\ queue[r] = <<>>
      /\ running[r] = EmptyBag
      /\ Ended(r) = Len(batch[r])

\* A response to a batch of two tasks, one of which ended after the endpoint
\* began to collect.
C4_Witness ==
  \E r \in Req :
    dpc[r] = "responded" /\ Len(batch[r]) = 2 /\ nearly[r] < 2

\* C5: a request whose batch is larger than the pool eventually responds,
\* with every task started and ended and a result for each.
C5_LargeBatchCompletes ==
  (dpc[1] = "submit" /\ Len(batch[1]) > max_workers)
    ~> (/\ dpc[1] = "responded"
        /\ Ended(1) = Len(batch[1])
        /\ Len(results[1]) = Len(batch[1]))

\* The response to a batch larger than the pool.
C5_Witness == dpc[1] = "responded" /\ Len(results[1]) > max_workers

\* C7 as stated: the result list is in the order the tasks ended.
C7_CompletionOrder ==
  \A r \in Req : dpc[r] = "responded" => results[r] = done_order[r]

\* C7 as amended: the results of the tasks that ended before the endpoint
\* began to collect come first, in any order; the results of the tasks that
\* ended after that follow in the order the tasks ended.
C7_CompletionOrderOfLate ==
  \A r \in Req :
    dpc[r] \in {"collect", "responded"} =>
      LET seen == results[r] \o waiter[r]
      IN  /\ Len(seen) = Len(done_order[r])
          /\ nearly[r] <= Len(results[r])
          /\ BagOf(Upto(seen, nearly[r])) = BagOf(Upto(done_order[r], nearly[r]))
          /\ From(seen, nearly[r]) = From(done_order[r], nearly[r])

\* A response whose two results differ and whose tasks both ended after
\* the endpoint began to collect.
C7_Witness ==
  \E r \in Req :
    /\ dpc[r] = "responded"
    /\ nearly[r] = 0
    /\ Len(results[r]) = 2
    /\ results[r][1] # results[r][2]

\* C8: when a fetcher is about to return success, its output files hold
\* the data the provider returned to it.
C8_FilesHoldData ==
  \A r \in Req : \A t \in BagToSet(running[r]) :
    t.pc = "return" =>
      /\ files[CsvPath(r, t)] = to_csv(t.data)
      /\ route[r] = "live" => files[live_info_file_path(t.ticker)] = json_dump(t.info)

\* C9: at most max_workers fetch operations of a batch execute at the same
\* time, and every other task that has been submitted and has not ended is
\* in the queue.
C9_PoolBound ==
  \A r \in Req :
    /\ Executing(r) <= max_workers
    /\ Executing(r) + Len(queue[r]) + Ended(r) = nsub[r]

\* Every worker of the pool is busy and a task waits in the queue.
C9_Witness == Executing(1) = max_workers /\ queue[1] # <<>>

\* A work item for a ticker the registry does not hold is at the lookup, and
\* nothing exists for such a ticker: no provider call, directory or file.
C10_UnknownState ==
  /\ \A r \in Req : \A t \in BagToSet(running[r]) :
       t.ticker \notin nifty50_tickers => t.pc = "fetch"
  /\ \A t \in Requested \ nifty50_tickers :
       /\ t \notin called
       /\ live_data_output_dir(t) \notin dirs
       /\ data_output_dir(t) \notin dirs
       /\ files[live_csv_path(t)] = Absent
       /\ files[live_info_file_path(t)] = Absent
       /\ files[historical_csv_path(t)] = Absent

\* What the step that ends a work item for such a ticker does.
C10_UnknownStep(r, t) ==
  (/\ t.ticker \notin nifty50_tickers
   /\ CopiesIn(t, running'[r]) < CopiesIn(t, running[r])) =>
    /\ done_order'[r] = Append(done_order[r], ErrorResult(KeyErrorMsg(t.ticker)))
    /\ log' = Append(log, LogLine(route[r], t.ticker, KeyErrorMsg(t.ticker)))
    /\ UNCHANGED <<files, dirs, called>>

\* C10: a task for a ticker the registry does not hold never gets past the
\* lookup, no call to the provider is made for such a ticker and nothing
\* under the output directories is created or changed for it; the step that
\* ends the task returns the KeyError's error result, adds the line to the
\* log and changes no file, no directory and no provider call.
C10_UnknownTickerFailsAtLookup ==
  /\ []C10_UnknownState
  /\ [][\A r \in Req : \A t \in TaskRecs : C10_UnknownStep(r, t)]_vars

\* The task of an unregistered ticker has ended, after a registered one of
\* the same batch has written its files.
C10_Witness ==
  \E r \in Req :
    /\ \E k \in DOMAIN done_order[r] :
         done_order[r][k] = ErrorResult(KeyErrorMsg(Unknown))
    /\ called # {}
    /\ dirs # {}

=============================================================================
